---- MODULE Spec2Model ----
(***************************************************************************)
(* Model of jobs/intended_state.py: the IntendedState job, which creates   *)
(* or updates records from a JSON "intended state" payload.                *)
(*                                                                         *)
(* Python values are modelled as tagged records:                           *)
(*   a str   [k |-> "str",  toks  |-> the result of str.split(":")]        *)
(*   a list  [k |-> "list", items |-> sequence of values]                  *)
(*   a dict  [k |-> "dict", keys  |-> sequence of key names (insertion     *)
(*                          order), vals |-> the values, same order]       *)
(*   a model instance [k |-> "obj", model |-> model name, id |-> pk]       *)
(* An exception is modelled as a result [ok |-> FALSE, err |-> its class]. *)
(***************************************************************************)
EXTENDS Integers, Sequences, FiniteSets, TLC

VARIABLES
    json_payload,   \* the argument of run: a dict value, or the text "not json"
    intended_state, \* json.loads(json_payload); the specs are mutated in place
    committed,      \* the records visible outside the transaction
    before,         \* history: the records when run was last called
    db,             \* the records as seen inside transaction.atomic()
    log,            \* self.logger: sequence of entries
    pc,             \* position in run / _run_intended_state
    ki,             \* index of the current object_name in intended_state
    oi,             \* index of the current object_data in objects
    set_dict,       \* local set_dict (None is the value NoneV)
    add_dict,       \* local add_dict
    obj,            \* local obj, result of update_or_create
    created,        \* local created
    raised,         \* the exception run re-raised to its caller, or "none"
    runs,           \* number of invocations of run that have returned
    calls,          \* history: the storage calls made by the current run, with
                    \* their arguments and what they returned
    needs_rollback  \* connection.needs_rollback: the transaction is broken

vars == <<json_payload, intended_state, committed, before, db, log, pc, ki, oi,
          set_dict, add_dict, obj, created, raised, runs, calls, needs_rollback>>

(***************************************************************************)
(* Python values                                                           *)
(***************************************************************************)
Str(toks) == [k |-> "str", toks |-> toks]
S(tok) == Str(<<tok>>)
Lst(items) == [k |-> "list", items |-> items]
Dict(keys, vals) == [k |-> "dict", keys |-> keys, vals |-> vals]
Obj(model, id) == [k |-> "obj", model |-> model, id |-> id]
NoneV == [k |-> "none"]
EmptyDict == Dict(<<>>, <<>>)

Ok(v) == [ok |-> TRUE, val |-> v]
Err(e) == [ok |-> FALSE, err |-> e]

\* key in d
Has(d, key) == \E n \in 1..Len(d.keys) : d.keys[n] = key

IndexOf(d, key) == CHOOSE n \in 1..Len(d.keys) : d.keys[n] = key

\* d[key]
Get(d, key) == d.vals[IndexOf(d, key)]

\* d.get(key, default)
GetOr(d, key, default) == IF Has(d, key) THEN Get(d, key) ELSE default

\* d[key] = val for a key already present (the position is kept)
Put(d, key, val) == [d EXCEPT !.vals[IndexOf(d, key)] = val]

RemoveAt(s, n) == SubSeq(s, 1, n - 1) \o SubSeq(s, n + 1, Len(s))

\* d after d.pop(key)
Pop(d, key) ==
    Dict(RemoveAt(d.keys, IndexOf(d, key)), RemoveAt(d.vals, IndexOf(d, key)))

(***************************************************************************)
(* The storage boundary (Django's app registry and ORM), as far as the     *)
(* job uses it.  The schema has two models, both with the text fields      *)
(* name (unique, required by validation) and color; org.person also has    *)
(* dept (a nullable foreign key to org.dept) and tags (many-to-many to     *)
(* org.dept).  A stored record is                                          *)
(*   [id, model, name, color, dept (an id, or 0 for NULL), tags (ids)].    *)
(***************************************************************************)
Models == {"org.dept", "org.person"}

\* names of the form "app_label.model_name"
DottedNames == Models \cup {"org.ghost"}

ScalarFields == {"name", "color"}

FkFields(model) == IF model = "org.person" THEN {"dept"} ELSE {}

M2mFields(model) == IF model = "org.person" THEN {"tags"} ELSE {}

Fields(model) == ScalarFields \cup FkFields(model) \cup M2mFields(model)

RelTarget == "org.dept"

Blank == S("")

\* apps.get_model(name): "app_label.model_name" is split on the dot
\* (ValueError when there is not exactly one), then looked up (LookupError).
get_model(name) ==
    IF name \in Models THEN Ok(name)
    ELSE IF name \in DottedNames THEN Err("LookupError")
    ELSE Err("ValueError")

\* The exception, if any, that the lookup field=value raises on model.
LookupError1(model, field, value) ==
    IF field \notin Fields(model) THEN "FieldError"
    ELSE IF field \in ScalarFields THEN "none"
    ELSE IF value.k = "obj"
         THEN IF value.model = RelTarget THEN "none" ELSE "ValueError"
    ELSE IF value.k = "none" THEN "none"
    ELSE "ValidationError"

\* Does record r satisfy the exact-match lookup field=value?
Matches(r, field, value) ==
    IF field \in ScalarFields THEN r[field] = value
    ELSE IF field = "dept"
         THEN (IF value.k = "obj" THEN r.dept = value.id ELSE r.dept = 0)
    ELSE (value.k = "obj" /\ value.id \in r.tags)

\* The exception of the first offending lookup of the dict, or "none".
LookupErrorOf(model, lookup) ==
    LET bad == {n \in 1..Len(lookup.keys) :
                  LookupError1(model, lookup.keys[n], lookup.vals[n]) # "none"}
    IN  IF bad = {} THEN "none"
        ELSE LET n == CHOOSE m \in bad : \A o \in bad : m <= o
             IN  LookupError1(model, lookup.keys[n], lookup.vals[n])

\* model.objects.filter(**lookup)
Filter(model, lookup, store) ==
    {r \in store : /\ r.model = model
                   /\ \A n \in 1..Len(lookup.keys) :
                         Matches(r, lookup.keys[n], lookup.vals[n])}

\* objects_get as it would be if no stored record ever matched
objects_get_NeverFinds(model, lookup, store) ==
    IF LookupErrorOf(model, lookup) # "none" THEN Err(LookupErrorOf(model, lookup))
    ELSE IF needs_rollback THEN Err("TransactionManagementError")
    ELSE Err("DoesNotExist")

\* objects_get as it would be if it took one of several matches
objects_get_AnyMatch(model, lookup, store) ==
    IF LookupErrorOf(model, lookup) # "none" THEN Err(LookupErrorOf(model, lookup))
    ELSE IF needs_rollback THEN Err("TransactionManagementError")
    ELSE LET m == Filter(model, lookup, store)
         IN  IF m = {} THEN Err("DoesNotExist")
             ELSE LET r == CHOOSE x \in m : TRUE IN Ok(Obj(model, r.id))

\* model.objects.get(**lookup): the lookup is built (and its fields and values
\* checked) before the query is run; no query runs in a broken transaction
objects_get(model, lookup, store) ==
    IF LookupErrorOf(model, lookup) # "none" THEN Err(LookupErrorOf(model, lookup))
    ELSE IF needs_rollback THEN Err("TransactionManagementError")
    ELSE LET m == Filter(model, lookup, store)
         IN  IF m = {} THEN Err("DoesNotExist")
             ELSE IF Cardinality(m) > 1 THEN Err("MultipleObjectsReturned")
             ELSE LET r == CHOOSE x \in m : TRUE IN Ok(Obj(model, r.id))

(***************************************************************************)
(* replace_ref                                                             *)
(***************************************************************************)
\* ref.startswith("#ref"), on the first colon-separated token
StartsWithRef(toks) == toks[1] \in {"#ref", "#reference"}

\* ref_split[::2] and ref_split[1::2]
EveryOther(s, first) ==
    [n \in 1..((Len(s) + 2 - first) \div 2) |-> s[2 * n - 2 + first]]

\* {fields[i]: values[i] for i in range(len(fields))}: a repeated field keeps
\* its first position and its last value.
ObjLookup(fields, values) ==
    LET firsts == {n \in 1..Len(fields) : \A m \in 1..(n - 1) : fields[m] # fields[n]}
        last(n) == CHOOSE m \in 1..Len(fields) :
                      /\ fields[m] = fields[n]
                      /\ \A o \in 1..Len(fields) : fields[o] = fields[n] => o <= m
        pos(j) == CHOOSE n \in firsts : Cardinality({m \in firsts : m < n}) = j - 1
    IN  Dict([j \in 1..Cardinality(firsts) |-> fields[pos(j)]],
             [j \in 1..Cardinality(firsts) |-> S(values[last(pos(j))])])

\* ResolveLegacy with the field and value slices exchanged
ResolveLegacySwapped(toks, store) ==
    LET ref_split == Tail(toks)
    IN  IF ref_split = <<>> THEN Err("IndexError")
        ELSE LET object_class == get_model(Head(ref_split))
                 fields == EveryOther(Tail(ref_split), 2)
                 values == EveryOther(Tail(ref_split), 1)
             IN  IF ~object_class.ok THEN object_class
                 ELSE IF Len(fields) > Len(values) THEN Err("IndexError")
                 ELSE objects_get(object_class.val, ObjLookup(fields, values), store)

\* lines 31-45: a str that starts with "#ref"
ResolveLegacy(toks, store) ==
    LET ref_split == Tail(toks)
    IN  IF ref_split = <<>> THEN Err("IndexError")
        ELSE LET object_class == get_model(Head(ref_split))
                 fields == EveryOther(Tail(ref_split), 1)
                 values == EveryOther(Tail(ref_split), 2)
             IN  IF ~object_class.ok THEN object_class
                 ELSE IF Len(fields) > Len(values) THEN Err("IndexError")
                 ELSE objects_get(object_class.val, ObjLookup(fields, values), store)

RECURSIVE replace_ref(_, _)
RECURSIVE ReplaceEach(_, _)

\* replace_ref applied to the elements of a sequence in order; the first
\* exception ends it.
ReplaceEach(items, store) ==
    IF items = <<>> THEN Ok(<<>>)
    ELSE LET h == replace_ref(Head(items), store)
         IN  IF ~h.ok THEN h
             ELSE LET t == ReplaceEach(Tail(items), store)
                  IN  IF ~t.ok THEN t ELSE Ok(<<h.val>> \o t.val)

\* replace_ref as it would be if lists were returned as they are
replace_ref_ListsAsIs(ref, store) ==
    IF ref.k = "dict"
    THEN LET r == ReplaceEach(ref.vals, store)
         IN  IF ~r.ok THEN r ELSE Ok(Dict(ref.keys, r.val))
    ELSE IF ref.k # "str" THEN Ok(ref)
    ELSE IF ~StartsWithRef(ref.toks) THEN Ok(ref)
    ELSE ResolveLegacy(ref.toks, store)

\* lines 18-45
replace_ref(ref, store) ==
    IF ref.k = "dict"
    THEN LET r == ReplaceEach(ref.vals, store)
         IN  IF ~r.ok THEN r ELSE Ok(Dict(ref.keys, r.val))
    ELSE IF ref.k = "list"
    THEN LET r == ReplaceEach(ref.items, store)
         IN  IF ~r.ok THEN r ELSE Ok(Lst(r.val))
    ELSE IF ref.k # "str" THEN Ok(ref)
    ELSE IF ~StartsWithRef(ref.toks) THEN Ok(ref)
    ELSE ResolveLegacy(ref.toks, store)

(***************************************************************************)
(* update_or_create, and the relationship managers used by obj_set/obj_add *)
(***************************************************************************)
\* a storage call's outcome: the exception (or "none"), the records after,
\* and whether the exception left an atomic(savepoint=False) block, which
\* marks the enclosing transaction for rollback
Outcome(err, store) == [err |-> err, db |-> store, doomed |-> FALSE]

\* the outcome of an exception raised inside the atomic(savepoint=False) block
\* of a relationship manager's set() or add()
RaisedInAtomic(err, store) == [err |-> err, db |-> store, doomed |-> TRUE]

NextId(store) ==
    CHOOSE n \in 1..(Cardinality(store) + 1) : \A r \in store : r.id # n

\* b's items laid over a's (dict.update)
Merge(a, b) ==
    LET extra == SelectSeq(b.keys, LAMBDA key : ~Has(a, key))
        keys == a.keys \o extra
    IN  Dict(keys, [n \in 1..Len(keys) |->
                      IF Has(b, keys[n]) THEN Get(b, keys[n]) ELSE Get(a, keys[n])])

\* the exception of assigning value to the attribute field of an instance
AssignError(model, field, value) ==
    IF field \in FkFields(model)
    THEN IF value.k = "none" \/ (value.k = "obj" /\ value.model = RelTarget)
         THEN "none" ELSE "ValueError"
    ELSE IF field \in M2mFields(model) THEN "TypeError"
    ELSE "none"

\* Model(**params): foreign keys are assigned before many-to-many arguments
InitError(model, params) ==
    LET idx == 1..Len(params.keys)
        err(n) == AssignError(model, params.keys[n], params.vals[n])
    IN  IF \E n \in idx : params.keys[n] \notin Fields(model) THEN "FieldError"
        ELSE IF \E n \in idx : err(n) = "ValueError" THEN "ValueError"
        ELSE IF \E n \in idx : err(n) = "TypeError" THEN "TypeError"
        ELSE "none"

\* the exception of the first failing setattr(obj, k, v) over defaults
SetattrError(model, defaults) ==
    LET bad == {n \in 1..Len(defaults.keys) :
                  AssignError(model, defaults.keys[n], defaults.vals[n]) # "none"}
    IN  IF bad = {} THEN "none"
        ELSE LET n == CHOOSE m \in bad : \A o \in bad : m <= o
             IN  AssignError(model, defaults.keys[n], defaults.vals[n])

\* record r with the attributes of the dict attrs assigned
WithAttrs(r, attrs) ==
    [r EXCEPT
       !.name = GetOr(attrs, "name", r.name),
       !.color = GetOr(attrs, "color", r.color),
       !.dept = IF Has(attrs, "dept")
                THEN (IF Get(attrs, "dept").k = "obj" THEN Get(attrs, "dept").id ELSE 0)
                ELSE r.dept]

\* the unique constraint on (model, name)
NameTaken(r, store) ==
    \E o \in store : o.model = r.model /\ o.id # r.id /\ o.name = r.name

\* line 113: object_class.objects.update_or_create(**object_data)
\* returns [err, db, obj, created]
update_or_create(model, kwargs, store) ==
    LET lookup == IF Has(kwargs, "defaults") THEN Pop(kwargs, "defaults") ELSE kwargs
        defaults == GetOr(kwargs, "defaults", EmptyDict)
        fail(e) == [err |-> e, db |-> store, obj |-> NoneV, created |-> FALSE]
        found == objects_get(model, lookup, store)
    IN  IF found.ok
        THEN LET old == CHOOSE r \in store : r.model = model /\ r.id = found.val.id
                 new == WithAttrs(old, defaults)
             IN  IF SetattrError(model, defaults) # "none"
                 THEN fail(SetattrError(model, defaults))
                 ELSE IF NameTaken(new, store) THEN fail("IntegrityError")
                 ELSE [err |-> "none", db |-> (store \ {old}) \cup {new},
                       obj |-> found.val, created |-> FALSE]
        ELSE IF found.err # "DoesNotExist" THEN fail(found.err)
        ELSE LET params == Merge(lookup, defaults)
                 new == WithAttrs([id |-> NextId(store), model |-> model,
                                   name |-> Blank, color |-> Blank,
                                   dept |-> 0, tags |-> {}], params)
             IN  IF InitError(model, params) # "none"
                 THEN fail(InitError(model, params))
                 ELSE IF NameTaken(new, store) THEN fail("IntegrityError")
                 ELSE [err |-> "none", db |-> store \cup {new},
                       obj |-> Obj(model, new.id), created |-> TRUE]

\* obj.validated_save(): full_clean() rejects a blank name
validated_save(o, store) ==
    LET r == CHOOSE x \in store : x.model = o.model /\ x.id = o.id
    IN  IF r.name = Blank THEN "ValidationError" ELSE "none"

\* the exception of passing these members to a manager's add(): a model
\* instance must be of the target model, anything else is read as a key
MembersError(members) ==
    IF \E n \in 1..Len(members) : members[n].k # "obj" THEN "ValidationError"
    ELSE IF \E n \in 1..Len(members) : members[n].model # RelTarget THEN "TypeError"
    ELSE "none"

MemberIds(members) == {members[n].id : n \in 1..Len(members)}

\* [x] unless x is already a list (lines 50-51, 59-60)
AsList(x) == IF x.k = "list" THEN x.items ELSE <<x>>

\* store with the tags of instance o replaced by ids
WithTags(o, ids, store) ==
    {IF r.model = o.model /\ r.id = o.id THEN [r EXCEPT !.tags = ids] ELSE r :
       r \in store}

TagsOf(o, store) ==
    (CHOOSE r \in store : r.model = o.model /\ r.id = o.id).tags

\* field_set as it would be without clear=True taking effect
field_set_NoClear(o, field_name, set_list, store) ==
    IF field_name \notin M2mFields(o.model) THEN Outcome("AttributeError", store)
    ELSE IF MembersError(set_list) # "none"
    THEN RaisedInAtomic(MembersError(set_list), store)
    ELSE Outcome("none", WithTags(o, TagsOf(o, store) \cup MemberIds(set_list), store))

\* lines 52-53: getattr(obj, field_name).set(set_list, clear=True):
\* clear(), then add(*set_list)
field_set(o, field_name, set_list, store) ==
    IF field_name \notin M2mFields(o.model) THEN Outcome("AttributeError", store)
    ELSE IF MembersError(set_list) # "none"
    THEN RaisedInAtomic(MembersError(set_list), WithTags(o, {}, store))
    ELSE Outcome("none", WithTags(o, MemberIds(set_list), store))

\* field_add as it would be if it replaced the members
field_add_Replaces(o, field_name, add_list, store) ==
    IF field_name \notin M2mFields(o.model) THEN Outcome("AttributeError", store)
    ELSE IF MembersError(add_list) # "none"
    THEN RaisedInAtomic(MembersError(add_list), store)
    ELSE Outcome("none", WithTags(o, MemberIds(add_list), store))

\* lines 61-62: getattr(obj, field_name).add(*add_list)
field_add(o, field_name, add_list, store) ==
    IF field_name \notin M2mFields(o.model) THEN Outcome("AttributeError", store)
    ELSE IF MembersError(add_list) # "none"
    THEN RaisedInAtomic(MembersError(add_list), store)
    ELSE Outcome("none", WithTags(o, TagsOf(o, store) \cup MemberIds(add_list), store))

RECURSIVE SetFields(_, _, _, _)
\* the loop of obj_set from field n on
SetFields(o, set_dict_, n, store) ==
    IF n > Len(set_dict_.keys) THEN Outcome("none", store)
    ELSE LET r == field_set(o, set_dict_.keys[n], AsList(set_dict_.vals[n]), store)
         IN  IF r.err # "none" THEN r ELSE SetFields(o, set_dict_, n + 1, r.db)

obj_set(o, set_dict_, store) ==
    LET r == SetFields(o, set_dict_, 1, store)
    IN  IF r.err # "none" THEN r ELSE Outcome(validated_save(o, r.db), r.db)

RECURSIVE AddFields(_, _, _, _)
\* the loop of obj_add from field n on
AddFields(o, add_dict_, n, store) ==
    IF n > Len(add_dict_.keys) THEN Outcome("none", store)
    ELSE LET r == field_add(o, add_dict_.keys[n], AsList(add_dict_.vals[n]), store)
         IN  IF r.err # "none" THEN r ELSE AddFields(o, add_dict_, n + 1, r.db)

\* obj_add as it would be if the record were validated before the members
\* are added
obj_add_ValidatesFirst(o, add_dict_, store) ==
    IF validated_save(o, store) # "none" THEN Outcome(validated_save(o, store), store)
    ELSE AddFields(o, add_dict_, 1, store)

\* lines 57-63
obj_add(o, add_dict_, store) ==
    LET r == AddFields(o, add_dict_, 1, store)
    IN  IF r.err # "none" THEN r ELSE Outcome(validated_save(o, r.db), r.db)

(***************************************************************************)
(* IntendedState.run and _run_intended_state                               *)
(***************************************************************************)
\* CaughtOnReplace without ObjectDoesNotExist
CaughtOnReplaceButNotFound ==
    {"AttributeError", "LookupError", "IndexError", "KeyError", "ValidationError",
     "MultipleObjectsReturned"}

\* except (AttributeError, LookupError, ObjectDoesNotExist, ValidationError,
\*         MultipleObjectsReturned), lines 101-107; IndexError and KeyError
\* are LookupErrors
CaughtOnReplace ==
    {"AttributeError", "LookupError", "IndexError", "KeyError", "DoesNotExist",
     "ValidationError", "MultipleObjectsReturned"}

\* except (ValueError, FieldError, ObjectDoesNotExist, ValidationError,
\*         MultipleObjectsReturned, IntegrityError), lines 118-125
CaughtOnCreate ==
    {"ValueError", "FieldError", "DoesNotExist", "ValidationError",
     "MultipleObjectsReturned", "IntegrityError"}

\* a log entry; run, ki, oi and at record where the job was when it logged it
Entry(level, what, err, o, c) ==
    [level |-> level, what |-> what, run |-> runs + 1, ki |-> ki, oi |-> oi,
     at |-> pc, err |-> err, obj |-> o, created |-> c]

\* the spec the loop body is working on: intended_state[object_name][oi]
object_data == intended_state.vals[ki].items[oi]

object_name == intended_state.keys[ki]

\* WithObjectData as it would be if the specs of one list were one shared
\* object
WithObjectDataShared(d) ==
    [intended_state EXCEPT
       !.vals[ki].items = [i \in 1..Len(intended_state.vals[ki].items) |-> d]]

\* intended_state with the current spec replaced by d (in-place mutation)
WithObjectData(d) == [intended_state EXCEPT !.vals[ki].items[oi] = d]

\* Propagate as it would be without transaction.atomic(): the records written
\* so far stay
PropagateKeepsRecords(e) ==
    /\ db' = db
    /\ log' = Append(log, Entry("error", "Failed to create objects", e, NoneV, FALSE))
    /\ raised' = e
    /\ runs' = runs + 1
    /\ pc' = "raised"
    /\ needs_rollback' = FALSE

\* An exception leaves _run_intended_state: transaction.atomic() rolls the
\* transaction back, run logs the error and re-raises it (lines 77-79).
Propagate(e) ==
    /\ db' = committed
    /\ log' = Append(log, Entry("error", "Failed to create objects", e, NoneV, FALSE))
    /\ raised' = e
    /\ runs' = runs + 1
    /\ pc' = "raised"
    /\ needs_rollback' = FALSE

\* line 111 / line 127: log a warning and continue with the next spec
WarnAndContinue(what, e) ==
    /\ log' = Append(log, Entry("warning", what, e, NoneV, FALSE))
    /\ oi' = oi + 1
    /\ pc' = "object"

\* lines 73-76 and 82: run is called; json.loads(json_payload)
Run ==
    /\ pc = "idle"
    /\ calls' = <<>>
    /\ before' = committed
    /\ IF json_payload.k # "dict"
       THEN /\ Propagate("ValueError")
            /\ UNCHANGED <<intended_state, ki, oi>>
       ELSE /\ intended_state' = json_payload
            /\ ki' = 1
            /\ oi' = 1
            /\ pc' = "key"
            /\ UNCHANGED <<db, log, raised, runs, needs_rollback>>
    /\ UNCHANGED <<json_payload, committed, set_dict, add_dict, obj, created>>

\* lines 83-84: the next object_name, or the end of the loop: the atomic
\* block is left without an exception, which commits the transaction, or
\* rolls it back when it is marked for rollback, and run returns
NextName ==
    /\ pc = "key"
    /\ IF ki > Len(intended_state.keys)
       THEN /\ committed' = IF needs_rollback THEN committed ELSE db
            /\ db' = committed'
            /\ needs_rollback' = FALSE
            /\ runs' = runs + 1
            /\ pc' = "returned"
            /\ UNCHANGED <<log, raised, oi>>
       ELSE IF ~get_model(object_name).ok
       THEN /\ Propagate(get_model(object_name).err)
            /\ UNCHANGED <<committed, oi>>
       ELSE /\ oi' = 1
            /\ pc' = "object"
            /\ UNCHANGED <<committed, db, log, raised, runs, needs_rollback>>
    /\ UNCHANGED <<before, json_payload, intended_state, ki, set_dict, add_dict, obj,
                   created, calls>>

\* line 85: the next object_data of objects, or on to the next object_name
NextObject ==
    /\ pc = "object"
    /\ IF oi > Len(intended_state.vals[ki].items)
       THEN /\ ki' = ki + 1
            /\ pc' = "key"
       ELSE /\ pc' = "extract_set"
            /\ UNCHANGED ki
    /\ UNCHANGED <<before, json_payload, intended_state, committed, db, log, oi, set_dict,
                   add_dict, obj, created, raised, runs, calls, needs_rollback>>

\* PopDirective as it would be if the defaults were looked at first
PopDirectiveDefaultsFirst(data, key) ==
    IF Has(GetOr(data, "defaults", EmptyDict), key)
    THEN [data |-> Put(data, "defaults", Pop(Get(data, "defaults"), key)),
          found |-> TRUE, dir |-> Get(Get(data, "defaults"), key)]
    ELSE IF Has(data, key)
    THEN [data |-> Pop(data, key), found |-> TRUE, dir |-> Get(data, key)]
    ELSE [data |-> data, found |-> FALSE, dir |-> NoneV]

\* The directive of the given key: popped from the spec, else from its
\* defaults, else absent: [data |-> the spec after the pop, found |-> whether
\* there was one, dir |-> its payload]
PopDirective(data, key) ==
    IF Has(data, key)
    THEN [data |-> Pop(data, key), found |-> TRUE, dir |-> Get(data, key)]
    ELSE IF Has(GetOr(data, "defaults", EmptyDict), key)
    THEN [data |-> Put(data, "defaults", Pop(Get(data, "defaults"), key)),
          found |-> TRUE, dir |-> Get(Get(data, "defaults"), key)]
    ELSE [data |-> data, found |-> FALSE, dir |-> NoneV]

\* lines 86-91
ExtractSet ==
    /\ pc = "extract_set"
    /\ LET p == PopDirective(object_data, "#set")
           r == IF p.found THEN replace_ref(p.dir, db) ELSE Ok(NoneV)
       IN  /\ intended_state' = WithObjectData(p.data)
           /\ IF r.ok
              THEN /\ set_dict' = r.val
                   /\ pc' = "extract_add"
                   /\ UNCHANGED <<db, log, raised, runs, needs_rollback>>
              ELSE /\ Propagate(r.err)
                   /\ UNCHANGED set_dict
    /\ UNCHANGED <<before, json_payload, committed, ki, oi, add_dict, obj, created, calls>>

\* lines 92-97
ExtractAdd ==
    /\ pc = "extract_add"
    /\ LET p == PopDirective(object_data, "#add")
           r == IF p.found THEN replace_ref(p.dir, db) ELSE Ok(NoneV)
       IN  /\ intended_state' = WithObjectData(p.data)
           /\ IF r.ok
              THEN /\ add_dict' = r.val
                   /\ pc' = "replace"
                   /\ UNCHANGED <<db, log, raised, runs, needs_rollback>>
              ELSE /\ Propagate(r.err)
                   /\ UNCHANGED add_dict
    /\ UNCHANGED <<before, json_payload, committed, ki, oi, set_dict, obj, created, calls>>

RECURSIVE ReplaceItems(_, _, _)
\* lines 99-100 from item n on: [data |-> the spec as mutated so far,
\* err |-> the exception that ended the loop, or "none"]
ReplaceItems(data, n, store) ==
    IF n > Len(data.keys) THEN [data |-> data, err |-> "none"]
    ELSE LET r == replace_ref(data.vals[n], store)
         IN  IF ~r.ok THEN [data |-> data, err |-> r.err]
             ELSE ReplaceItems([data EXCEPT !.vals[n] = r.val], n + 1, store)

\* lines 98-111
ReplaceFields ==
    /\ pc = "replace"
    /\ LET r == ReplaceItems(object_data, 1, db)
       IN  /\ intended_state' = WithObjectData(r.data)
           /\ IF r.err = "none"
              THEN /\ pc' = "create"
                   /\ UNCHANGED <<db, log, oi, raised, runs, needs_rollback>>
              ELSE IF r.err \in CaughtOnReplace
              THEN /\ WarnAndContinue("Error replacing reference", r.err)
                   /\ UNCHANGED <<db, raised, runs, needs_rollback>>
              ELSE /\ Propagate(r.err)
                   /\ UNCHANGED oi
    /\ UNCHANGED <<before, json_payload, committed, ki, set_dict, add_dict, obj, created,
                   calls>>

\* CreateFailed as it would be without the continue of line 127
CreateFailedNoContinue(e, store, doomed) ==
    IF e \in CaughtOnCreate
    THEN /\ log' = Append(log, Entry("warning", "Unable to create object", e, NoneV, FALSE))
         /\ pc' = "report"
         /\ db' = store
         /\ needs_rollback' = doomed
         /\ UNCHANGED <<oi, raised, runs>>
    ELSE /\ Propagate(e)
         /\ UNCHANGED oi

\* an exception inside the try of lines 112-117, raised by a storage call
\* that left the records as store, and the transaction marked for rollback if
\* doomed
CreateFailed(e, store, doomed) ==
    IF e \in CaughtOnCreate
    THEN /\ WarnAndContinue("Unable to create object", e)
         /\ db' = store
         /\ needs_rollback' = doomed
         /\ UNCHANGED <<raised, runs>>
    ELSE /\ Propagate(e)
         /\ UNCHANGED oi

\* NextStep with obj_add placed before obj_set
NextStepAddFirst(step) ==
    CASE step = "create" -> "add"
      [] step = "add" -> "set"
      [] step = "set" -> "report"

\* the order of the statements of lines 113-133: update_or_create, obj_set,
\* obj_add, logger.info
NextStep(step) ==
    CASE step = "create" -> "set"
      [] step = "set" -> "add"
      [] step = "add" -> "report"

\* line 113
UpdateOrCreate ==
    /\ pc = "create"
    /\ LET r == update_or_create(object_name, object_data, db)
       IN  /\ calls' = Append(calls, [op |-> "update_or_create", ki |-> ki, oi |-> oi,
                                      args |-> object_data, ret |-> r.obj])
           /\ IF r.err = "none"
              THEN /\ db' = r.db
                   /\ obj' = r.obj
                   /\ created' = r.created
                   /\ pc' = NextStep("create")
                   /\ UNCHANGED <<log, oi, raised, runs, needs_rollback>>
              ELSE /\ CreateFailed(r.err, r.db, FALSE)
                   /\ UNCHANGED <<obj, created>>
    /\ UNCHANGED <<before, json_payload, intended_state, committed, ki, set_dict, add_dict>>

\* the truth value of a Python value (None, an empty dict or list are false)
Truthy(x) ==
    /\ x.k # "none"
    /\ x.k = "dict" => x.keys # <<>>
    /\ x.k = "list" => x.items # <<>>

\* lines 114-115
ApplySet ==
    /\ pc = "set"
    /\ IF ~Truthy(set_dict)
       THEN /\ pc' = NextStep("set")
            /\ UNCHANGED <<db, log, oi, raised, runs, calls, needs_rollback>>
       ELSE LET r == obj_set(obj, set_dict, db)
            IN  /\ calls' = Append(calls, [op |-> "obj_set", ki |-> ki, oi |-> oi,
                                           args |-> set_dict, ret |-> NoneV])
                /\ IF r.err = "none"
                   THEN /\ db' = r.db
                        /\ pc' = NextStep("set")
                        /\ UNCHANGED <<log, oi, raised, runs, needs_rollback>>
                   ELSE CreateFailed(r.err, r.db, r.doomed)
    /\ UNCHANGED <<before, json_payload, intended_state, committed, ki, set_dict, add_dict,
                   obj, created>>

\* lines 116-117
ApplyAdd ==
    /\ pc = "add"
    /\ IF ~Truthy(add_dict)
       THEN /\ pc' = NextStep("add")
            /\ UNCHANGED <<db, log, oi, raised, runs, calls, needs_rollback>>
       ELSE LET r == obj_add(obj, add_dict, db)
            IN  /\ calls' = Append(calls, [op |-> "obj_add", ki |-> ki, oi |-> oi,
                                           args |-> add_dict, ret |-> NoneV])
                /\ IF r.err = "none"
                   THEN /\ db' = r.db
                        /\ pc' = NextStep("add")
                        /\ UNCHANGED <<log, oi, raised, runs, needs_rollback>>
                   ELSE CreateFailed(r.err, r.db, r.doomed)
    /\ UNCHANGED <<before, json_payload, intended_state, committed, ki, set_dict, add_dict,
                   obj, created>>

\* lines 128-133
Report ==
    /\ pc = "report"
    /\ log' = Append(log, Entry("info", "Object has been", "none", obj, created))
    /\ oi' = oi + 1
    /\ pc' = "object"
    /\ UNCHANGED <<before, json_payload, intended_state, committed, db, ki, set_dict,
                   add_dict, obj, created, raised, runs, calls, needs_rollback>>

(***************************************************************************)
(* Inputs: payloads and initial records                                    *)
(***************************************************************************)
\* the most specs a payload holds
MaxSpecs == 3

\* the legacy marker "#ref:<model>:<field>:<value>"
Ref(model, field, value) == Str(<<"#ref", model, field, value>>)

\* the structured marker {<model>: {<field>: <value>}}
Marker(model, field, value) == Dict(<<model>>, <<Dict(<<field>>, <<S(value)>>)>>)

Named(n) == Dict(<<"name">>, <<S(n)>>)

\* a spec {"name": n, key: val}
With(n, key, val) == Dict(<<"name", key>>, <<S(n), val>>)

Tags(x) == Dict(<<"tags">>, <<x>>)

\* one spec under a model name
Under(model, spec) == [name |-> model, spec |-> spec]

\* specs that any position of a payload may hold: they create the records
\* the others refer to, refer to them, or end the run
CoreEntries ==
    { Under("org.dept", Named("d")),
      Under("org.dept", With("e", "color", Ref("org.dept", "name", "d"))),
      Under("org.person", Named("q")),
      Under("org.person", With("q", "dept", Ref("org.dept", "name", "d"))),
      Under("org.person", With("p", "#add", Tags(Ref("org.dept", "name", "d")))),
      Under("org.ghost", Named("a")) }

\* values given to a person's dept
DeptValues ==
    { Ref("org.dept", "name", "a"), Ref("org.dept", "color", "r"),
      Ref("org.ghost", "name", "a"), Ref("ghost", "name", "a"), Ref("", "name", "a"),
      Ref("org.dept", "nofield", "a"), Str(<<"#ref", "org.dept", "name">>),
      Str(<<"#ref">>), Str(<<"#reference", "org.dept", "name", "a">>),
      Marker("org.dept", "name", "a"), S("a") }

\* directive payloads
TagPayloads ==
    { Tags(Lst(<<Ref("org.dept", "name", "c")>>)),
      Tags(Ref("org.dept", "name", "b")),
      Tags(Lst(<<Ref("org.dept", "name", "c"), Ref("org.dept", "name", "a")>>)),
      Tags(Lst(<<>>)),
      Tags(Lst(<<Ref("org.dept", "name", "a"), Ref("org.dept", "name", "zz")>>)),
      Tags(Lst(<<Ref("org.dept", "color", "r")>>)),
      Tags(Ref("org.ghost", "name", "a")),
      Tags(Lst(<<S("c")>>)),
      Tags(Marker("org.dept", "name", "c")),
      Tags(Ref("org.person", "name", "p")),
      Dict(<<"tags", "nofield">>, <<Ref("org.dept", "name", "c"), Lst(<<>>)>>) }

PersonSpecs ==
    { Named("p") }
    \cup { With("q", "dept", x) : x \in DeptValues }
    \cup { With("p", "defaults", Dict(<<"dept">>, <<Ref("org.dept", "name", "c")>>)) }
    \cup { With("p", d, x) : d \in {"#set", "#add"}, x \in TagPayloads }
    \cup { Dict(<<"color", "#add">>, <<S("g"), Tags(Ref("org.dept", "name", "a"))>>),
           Dict(<<"name", "#set", "#add">>,
                <<S("p"), Tags(Ref("org.dept", "name", "c")),
                  Tags(Ref("org.dept", "name", "a"))>>),
           Dict(<<"name", "defaults", "#set">>,
                <<S("p"),
                  Dict(<<"color", "#set">>, <<S("g"), Tags(Ref("org.dept", "name", "b"))>>),
                  Tags(Ref("org.dept", "name", "c"))>>),
           Dict(<<"name", "defaults", "#add">>,
                <<S("p"), Dict(<<"#add">>, <<Tags(Ref("org.dept", "name", "a"))>>),
                  Tags(Ref("org.dept", "name", "c"))>>),
           With("p", "defaults",
                Dict(<<"#add">>, <<Tags(Ref("org.dept", "name", "c"))>>)) }

DeptSpecs ==
    { Named("a"),
      Dict(<<"color">>, <<S("r")>>),
      With("d", "defaults", Dict(<<"color">>, <<S("r")>>)),
      With("d", "nofield", S("x")),
      With("d", "defaults", Dict(<<"nofield">>, <<S("x")>>)) }

\* every spec of the model, under its model name
Entries ==
    CoreEntries
    \cup {Under("org.person", x) : x \in PersonSpecs}
    \cup {Under("org.dept", x) : x \in DeptSpecs}

\* The JSON object holding the entries: a model name's key stands where its
\* first entry does, and its list holds its entries in order.
Document(entries) ==
    LET idx == 1..Len(entries)
        firsts == {n \in idx : \A m \in 1..(n - 1) : entries[m].name # entries[n].name}
        pos(j) == CHOOSE n \in firsts : Cardinality({m \in firsts : m < n}) = j - 1
        under(name) == SelectSeq(entries, LAMBDA e : e.name = name)
        specs(name) == [n \in 1..Len(under(name)) |-> under(name)[n].spec]
    IN  Dict([j \in 1..Cardinality(firsts) |-> entries[pos(j)].name],
             [j \in 1..Cardinality(firsts) |-> Lst(specs(entries[pos(j)].name))])

\* text that json.loads rejects
NotJson == S("not json")

Rec(id, model, name, color, dept, tags) ==
    [id |-> id, model |-> model, name |-> S(name), color |-> S(color),
     dept |-> dept, tags |-> tags]

\* the records present before run is called
InitialRecords ==
    { {},
      { Rec(1, "org.dept", "a", "r", 0, {}), Rec(2, "org.dept", "b", "r", 0, {}),
        Rec(3, "org.dept", "c", "g", 0, {}), Rec(4, "org.person", "p", "", 1, {1, 2}) } }

\* run is given a JSON object of up to MaxSpecs specs, at most one of them
\* outside CoreEntries, or text that is not JSON
InitPayload ==
    \/ json_payload = NotJson
    \/ \E n \in 0..MaxSpecs : \E core \in [1..n -> CoreEntries] :
          \/ json_payload = Document(core)
          \/ \E at \in 1..n : \E e \in Entries :
                json_payload = Document([core EXCEPT ![at] = e])

InitRest ==
    /\ committed \in InitialRecords
    /\ before = committed
    /\ db = committed
    /\ intended_state = EmptyDict
    /\ log = <<>>
    /\ pc = "idle"
    /\ ki = 0
    /\ oi = 0
    /\ set_dict = NoneV
    /\ add_dict = NoneV
    /\ obj = NoneV
    /\ created = FALSE
    /\ raised = "none"
    /\ runs = 0
    /\ calls = <<>>
    /\ needs_rollback = FALSE

Init == InitPayload /\ InitRest

\* the most invocations of run with one payload
MaxRuns == 2

\* specs without reference markers and without directives
PlainEntries ==
    { Under("org.dept", Named("d")),
      Under("org.dept", Dict(<<"color">>, <<S("r")>>)),
      Under("org.dept", With("d", "defaults", Dict(<<"color">>, <<S("r")>>))),
      Under("org.dept", Dict(<<"color", "defaults">>, <<S("g"), Named("d")>>)),
      Under("org.dept", With("d", "defaults", Named("e"))),
      Under("org.dept", With("d", "nofield", S("x"))),
      Under("org.person", Named("p")),
      Under("org.person", Dict(<<"color", "defaults">>, <<S("g"), Named("q")>>)) }

\* run is given a JSON object of up to MaxSpecs plain specs
InitPlainPayload ==
    \E n \in 1..MaxSpecs : \E es \in [1..n -> PlainEntries] :
        json_payload = Document(es)

InitTwice == InitPlainPayload /\ InitRest

\* the caller runs the job again with the same payload
RunAgain ==
    /\ pc \in {"returned", "raised"}
    /\ runs < MaxRuns
    /\ pc' = "idle"
    /\ intended_state' = EmptyDict
    /\ ki' = 0
    /\ oi' = 0
    /\ set_dict' = NoneV
    /\ add_dict' = NoneV
    /\ obj' = NoneV
    /\ created' = FALSE
    /\ raised' = "none"
    /\ UNCHANGED <<json_payload, committed, before, db, log, runs, calls, needs_rollback>>

Next ==
    \/ Run
    \/ NextName
    \/ NextObject
    \/ ExtractSet
    \/ ExtractAdd
    \/ ReplaceFields
    \/ UpdateOrCreate
    \/ ApplySet
    \/ ApplyAdd
    \/ Report

Spec == Init /\ [][Next]_vars

NextTwice == Next \/ RunAgain

SpecTwice == InitTwice /\ [][NextTwice]_vars

(***************************************************************************)
(* Properties                                                              *)
(***************************************************************************)
\* the positions of the log entries of the latest run that has ended
LastRun == {n \in 1..Len(log) : log[n].run = runs}

\* is the instance o a stored record of store?
Persisted(o, store) == \E r \in store : r.model = o.model /\ r.id = o.id

\* the spec-level steps of the loop body
SpecSteps == {"extract_set", "extract_add", "replace", "create", "set", "add"}

\* C1: when run re-raises an error, the records are those present when it was
\* called, inside and outside the transaction, and the error was logged once,
\* last, by this run.
C1_AtomicRollback ==
    pc = "raised" =>
        /\ raised # "none"
        /\ db = before
        /\ committed = before
        /\ Cardinality({n \in LastRun : log[n].level = "error"}) = 1
        /\ log[Len(log)].level = "error"
        /\ log[Len(log)].run = runs
        /\ log[Len(log)].err = raised

\* a run that created a record for one spec and then failed in a later one
C1_Witness ==
    /\ pc = "raised"
    /\ \E n \in LastRun : log[n].level = "info" /\ log[n].created
    /\ log[Len(log)].at \in SpecSteps

FieldNotFound ==
    /\ pc = "replace"
    /\ ReplaceItems(object_data, 1, db).err = "DoesNotExist"
    /\ pc' # pc

\* the entries of the document other than the current one
OtherSpecs(state) ==
    [k \in 1..Len(state.vals) |->
       [i \in 1..Len(state.vals[k].items) |->
          IF k = ki /\ i = oi THEN NoneV ELSE state.vals[k].items[i]]]

\* C3: a spec with a field reference that is not found is skipped: one warning
\* is logged, no storage call is made, the records and the other specs are
\* left as they were, the loop goes on with the next spec and run does not
\* raise; and no storage call is ever made for a spec so skipped.
C3_SkippedOnNotFound ==
    /\ [](\A n \in 1..Len(log) :
            (log[n].level = "warning" /\ log[n].at = "replace"
             /\ log[n].run = runs + 1) =>
                \A c \in 1..Len(calls) :
                    ~(calls[c].ki = log[n].ki /\ calls[c].oi = log[n].oi))
    /\ [][FieldNotFound =>
            /\ Len(log') = Len(log) + 1
            /\ SubSeq(log', 1, Len(log)) = log
            /\ log'[Len(log')].level = "warning"
            /\ log'[Len(log')].err = "DoesNotExist"
            /\ calls' = calls
            /\ db' = db
            /\ committed' = committed
            /\ OtherSpecs(intended_state') = OtherSpecs(intended_state)
            /\ raised' = "none"
            /\ pc' = "object" /\ ki' = ki /\ oi' = oi + 1]_vars

\* two person specs, the first referring to a dept that does not exist: one
\* warning, then one record created, and the run returns
C3_Witness ==
    /\ pc = "returned"
    /\ Len(log) = 2
    /\ log[1].level = "warning" /\ log[1].err = "DoesNotExist" /\ log[1].at = "replace"
    /\ log[2].level = "info" /\ log[2].created
    /\ Cardinality(committed) = 1
    /\ \A r \in committed : r.model = "org.person"

\* C4 (as claimed): no error in resolving the references of a directive
\* payload leaves the loop: run never raises from there.
C4_PayloadErrorsRecovered ==
    \A n \in 1..Len(log) :
        log[n].level = "error" => log[n].at \notin {"extract_set", "extract_add"}

\* C5 (as claimed): no error in applying a directive leaves the loop: run
\* never raises from there.
C5_DirectiveErrorsRecovered ==
    \A n \in 1..Len(log) :
        log[n].level = "error" => log[n].at \notin {"set", "add"}

\* the specs of the payload, as positions <<ki, oi>>
Positions ==
    IF json_payload.k # "dict" THEN {}
    ELSE {p \in (1..Len(json_payload.keys)) \X (1..MaxSpecs) :
            p[2] <= Len(json_payload.vals[p[1]].items)}

\* the payload is one spec whose defaults assign none of its lookup's fields
OneSpecNoOverride ==
    /\ Len(json_payload.keys) = 1
    /\ Len(json_payload.vals[1].items) = 1
    /\ LET spec == json_payload.vals[1].items[1]
           defaults == GetOr(spec, "defaults", EmptyDict)
       IN  \A n \in 1..Len(defaults.keys) : ~Has(spec, defaults.keys[n])

\* C6 (as amended): for a payload of one spec without references and
\* directives whose defaults assign none of the lookup's fields, if a run
\* reports an outcome for the spec, the next run of the same payload reports
\* updated (created = false) for the same record and leaves the records as
\* the run before left them.
C6_SecondRunUpdates ==
    (pc = "returned" /\ runs >= 2 /\ OneSpecNoOverride) =>
        \A n \in 1..Len(log) :
            (log[n].run = runs - 1 /\ log[n].level = "info") =>
                /\ \E m \in LastRun :
                      /\ log[m].level = "info"
                      /\ ~log[m].created
                      /\ log[m].obj = log[n].obj
                /\ committed = before

\* one spec, created by the first run and updated by the second
C6_Witness ==
    /\ pc = "returned" /\ runs = 2 /\ OneSpecNoOverride
    /\ Len(log) = 2
    /\ log[1].level = "info" /\ log[1].created
    /\ log[2].level = "info" /\ ~log[2].created /\ log[2].obj = log[1].obj
    /\ committed = before

\* C6 (as claimed): for every payload without references and directives, the
\* first run reports created for each spec, the second updated for the same
\* record, and the records after the second run are those after the first.
C6_Idempotent ==
    (pc = "returned" /\ runs = 2) =>
        /\ \A p \in Positions :
              \E n, m \in 1..Len(log) :
                  /\ log[n].run = 1 /\ log[n].ki = p[1] /\ log[n].oi = p[2]
                  /\ log[n].level = "info" /\ log[n].created
                  /\ log[m].run = 2 /\ log[m].ki = p[1] /\ log[m].oi = p[2]
                  /\ log[m].level = "info" /\ ~log[m].created
                  /\ log[m].obj = log[n].obj
        /\ committed = before

\* the spec at position p of the payload, as given
SpecAt(p) == json_payload.vals[p[1]].items[p[2]]

RECURSIVE Mentions(_, _)
\* does the value v hold x, at any depth?
Mentions(v, x) ==
    \/ v = x
    \/ v.k = "dict" /\ \E n \in 1..Len(v.vals) : Mentions(v.vals[n], x)
    \/ v.k = "list" /\ \E n \in 1..Len(v.items) : Mentions(v.items[n], x)

\* the payload is two specs, the one at p before the one at q
TwoSpecs(p, q) ==
    /\ Positions = {p, q}
    /\ p[1] < q[1] \/ (p[1] = q[1] /\ p[2] < q[2])

RefToD == Ref("org.dept", "name", "d")

CreatesD(p) == json_payload.keys[p[1]] = "org.dept" /\ SpecAt(p) = Named("d")

NoDeptD(store) == ~\E r \in store : r.model = "org.dept" /\ r.name = S("d")

\* the entry logged for the spec at position p by the latest run
Logged(p, level) ==
    \E n \in LastRun : log[n].ki = p[1] /\ log[n].oi = p[2] /\ log[n].level = level

\* C7 (as claimed): of two specs, one creating the dept named d and one
\* referring to it: when the referring spec comes second its reference
\* resolves and it is reported; when it comes first it is skipped with a
\* not-found warning and the other spec is then processed and creates d.
C7_DocumentOrder ==
    (pc \in {"returned", "raised"} /\ NoDeptD(before)) =>
        \A p, q \in Positions :
            /\ (TwoSpecs(p, q) /\ CreatesD(p) /\ Mentions(SpecAt(q), RefToD)) =>
                  /\ pc = "returned"
                  /\ Logged(p, "info") /\ Logged(q, "info")
            /\ (TwoSpecs(p, q) /\ Mentions(SpecAt(p), RefToD) /\ CreatesD(q)) =>
                  /\ pc = "returned"
                  /\ \E n \in LastRun :
                        /\ log[n].ki = p[1] /\ log[n].oi = p[2]
                        /\ log[n].level = "warning" /\ log[n].err = "DoesNotExist"
                  /\ \E n \in LastRun :
                        /\ log[n].ki = q[1] /\ log[n].oi = q[2]
                        /\ log[n].level = "info" /\ log[n].created

\* the ids of the records of store that the legacy marker x denotes by one
\* text field
IdsOf(x, store) ==
    IF x.k = "str" /\ Len(x.toks) = 4 /\ x.toks[1] = "#ref" /\ x.toks[3] \in ScalarFields
    THEN {r.id : r \in {s \in store : s.model = x.toks[2] /\ s[x.toks[3]] = S(x.toks[4])}}
    ELSE {}

\* the ids of the records that the members of the list L denote
DenotedIds(L, store) == UNION {IdsOf(L[n], store) : n \in 1..Len(L)}

\* the directive of the current spec, as the payload gave it
GivenDirective(key) == PopDirective(SpecAt(<<ki, oi>>), key)

GivenTags(key) == AsList(Get(GivenDirective(key).dir, "tags"))

C9_AddIsAdditive ==
    /\ [][(pc = "add" /\ Truthy(add_dict) /\ pc' = "report") =>
             TagsOf(obj, db') = TagsOf(obj, db) \cup DenotedIds(GivenTags("#add"), db)]_vars
    /\ [][(/\ pc = "add"
           /\ Truthy(add_dict)
           /\ add_dict.keys = <<"tags">>
           /\ MembersError(AsList(add_dict.vals[1])) = "none"
           /\ MemberIds(AsList(add_dict.vals[1])) \subseteq TagsOf(obj, db)
           /\ validated_save(obj, db) = "none"
           /\ pc' # pc) =>
             (pc' = "report" /\ raised' = "none" /\ db' = db)]_vars

\* the person with tags {1, 2} has had add [c, a] applied: its tags are
\* {1, 2, 3}
C9_Witness ==
    /\ pc = "report"
    /\ Len(calls) > 0 /\ calls[Len(calls)].op = "obj_add"
    /\ Len(AsList(add_dict.vals[1])) = 2
    /\ Persisted(obj, committed)
    /\ TagsOf(obj, committed) = {1, 2}
    /\ TagsOf(obj, db) = {1, 2, 3}

\* the predicates the two encodings are compared on: one or two text fields
Predicates ==
    {<<f>> : f \in ScalarFields} \cup {<<"name", "color">>, <<"color", "name">>}

\* "#ref:<model>:<field>:<value>..."
LegacyMarker(model, fs, vs) ==
    Str(<<"#ref", model>> \o
        [n \in 1..(2 * Len(fs)) |->
           IF n % 2 = 1 THEN fs[(n + 1) \div 2] ELSE vs[n \div 2]])

\* {<model>: {<field>: <value>, ...}}
StructuredMarker(model, fs, vs) ==
    Dict(<<model>>, <<Dict(fs, [n \in 1..Len(fs) |-> S(vs[n])])>>)

\* the records of store that satisfy the predicate
Denoted(model, fs, vs, store) ==
    {r \in store : r.model = model /\ \A n \in 1..Len(fs) : r[fs[n]] = S(vs[n])}

\* is v a text without a colon?
IsText(v) == v.k = "str" /\ Len(v.toks) = 1

\* the values record r holds in the fields fs
ValuesOf(r, fs) == [n \in 1..Len(fs) |-> r[fs[n]].toks[1]]

\* the predicate made of r's own values of fs denotes r and no other record
DenotesOnly(r, fs, store) ==
    /\ \A n \in 1..Len(fs) : IsText(r[fs[n]])
    /\ Denoted(r.model, fs, ValuesOf(r, fs), store) = {r}

\* the job is about to resolve a spec's values, in a transaction that can
\* still run queries
AboutToResolve == pc = "replace" /\ ~needs_rollback

TopLevel(p, key) == Get(SpecAt(p), key)

\* the directive of kind key inside the defaults of the spec at p, as given
Nested(p, key) == Get(Get(SpecAt(p), "defaults"), key)

HasNested(p, key) == Has(GetOr(SpecAt(p), "defaults", EmptyDict), key)

\* the directive of kind key that takes precedence in the spec at p
Preferred(p, key) == IF Has(SpecAt(p), key) THEN TopLevel(p, key) ELSE Nested(p, key)

\* the storage calls of kind op made for the spec at p
CallsFor(p, op) ==
    {c \in 1..Len(calls) : calls[c].op = op /\ calls[c].ki = p[1] /\ calls[c].oi = p[2]}

\* the directive of kind key extracted from the spec at p, resolved in store
Extracted(p, key, store) ==
    IF Has(SpecAt(p), key) \/ HasNested(p, key)
    THEN replace_ref(Preferred(p, key), store).val
    ELSE NoneV

\* C11: the directive extracted from a spec is the top-level one when there is
\* one, the defaults-nested one only otherwise.  When a set (add) directive has
\* been applied without error, the tags of the upserted record are those the
\* top-level directive denotes when there is one, those the defaults-nested
\* one denotes only otherwise; and no spec has a directive of one kind applied
\* twice.
C11_TopLevelWins ==
    /\ [][(pc = "extract_set" /\ pc' = "extract_add") =>
             set_dict' = Extracted(<<ki, oi>>, "#set", db)]_vars
    /\ [][(pc = "extract_add" /\ pc' = "replace") =>
             add_dict' = Extracted(<<ki, oi>>, "#add", db)]_vars
    /\ [][(pc = "set" /\ Truthy(set_dict) /\ pc' = "add") =>
             /\ Has(SpecAt(<<ki, oi>>), "#set") \/ HasNested(<<ki, oi>>, "#set")
             /\ TagsOf(obj, db') =
                   DenotedIds(AsList(Get(Preferred(<<ki, oi>>, "#set"), "tags")), db)]_vars
    /\ [][(pc = "add" /\ Truthy(add_dict) /\ pc' = "report") =>
             /\ Has(SpecAt(<<ki, oi>>), "#add") \/ HasNested(<<ki, oi>>, "#add")
             /\ TagsOf(obj, db') =
                   TagsOf(obj, db) \cup
                   DenotedIds(AsList(Get(Preferred(<<ki, oi>>, "#add"), "tags")), db)]_vars
    /\ [](\A p \in Positions : \A op \in {"obj_set", "obj_add"} :
             Cardinality(CallsFor(p, op)) <= 1)

\* a spec with set [c] at its top level and set [b] in its defaults has had
\* its set applied: the tags of the person are {3}
C11_Witness ==
    /\ pc = "add"
    /\ Truthy(set_dict)
    /\ Has(SpecAt(<<ki, oi>>), "#set") /\ HasNested(<<ki, oi>>, "#set")
    /\ TopLevel(<<ki, oi>>, "#set") # Nested(<<ki, oi>>, "#set")
    /\ CallsFor(<<ki, oi>>, "obj_set") # {}
    /\ TagsOf(obj, db) = {3}

\* the directive keys
DirectiveKeys == {"#set", "#add"}

\* does the mapping d hold a directive key, at its top level or in its defaults?
HoldsDirective(d) ==
    \E key \in DirectiveKeys : Has(d, key) \/ Has(GetOr(d, "defaults", EmptyDict), key)

\* C12 (as claimed): no mapping handed to update_or_create holds a set or add
\* directive key, at its top level or inside its defaults.
C12_DirectivesRemoved ==
    \A c \in 1..Len(calls) :
        calls[c].op = "update_or_create" => ~HoldsDirective(calls[c].args)

\* is v a legacy marker, a text that starts with "#ref"?
IsLegacyMarker(v) == v.k = "str" /\ v.toks[1] \in {"#ref", "#reference"}

\* is v a structured marker {<model>: {<field>: <value>, ...}}?
IsStructuredMarker(v) ==
    /\ v.k = "dict"
    /\ Len(v.keys) = 1
    /\ v.keys[1] \in DottedNames
    /\ v.vals[1].k = "dict"

RECURSIVE HoldsLegacyMarker(_)
\* is a legacy marker reachable in v, at any depth?
HoldsLegacyMarker(v) ==
    \/ IsLegacyMarker(v)
    \/ v.k = "dict" /\ \E n \in 1..Len(v.vals) : HoldsLegacyMarker(v.vals[n])
    \/ v.k = "list" /\ \E n \in 1..Len(v.items) : HoldsLegacyMarker(v.items[n])

RECURSIVE HoldsMarker(_)
\* is a marker of either encoding reachable in v, at any depth?
HoldsMarker(v) ==
    \/ IsLegacyMarker(v)
    \/ IsStructuredMarker(v)
    \/ v.k = "dict" /\ \E n \in 1..Len(v.vals) : HoldsMarker(v.vals[n])
    \/ v.k = "list" /\ \E n \in 1..Len(v.items) : HoldsMarker(v.items[n])

LookupTexts == {"a", "r", "g", "zz"}

\* what a lookup that denotes the records hit must give
ExactlyOne(model, hit) ==
    IF hit = {} THEN Err("DoesNotExist")
    ELSE IF Cardinality(hit) > 1 THEN Err("MultipleObjectsReturned")
    ELSE Ok(Obj(model, (CHOOSE r \in hit : TRUE).id))

\* is v a legacy marker of one text field of a known model?
IsFieldMarker(v) ==
    /\ IsLegacyMarker(v)
    /\ Len(v.toks) = 4
    /\ v.toks[1] = "#ref"
    /\ v.toks[2] \in Models
    /\ v.toks[3] \in ScalarFields

\* the records of store the field marker v denotes
Hit(v, store) == Denoted(v.toks[2], <<v.toks[3]>>, <<v.toks[4]>>, store)

\* the items of the current spec are texts, and those among them that are
\* legacy markers are field markers
PlainFields ==
    \A n \in 1..Len(object_data.vals) :
        /\ object_data.vals[n].k = "str"
        /\ IsLegacyMarker(object_data.vals[n]) => IsFieldMarker(object_data.vals[n])

\* the items of the current spec whose marker does not denote exactly one record
Ambiguous ==
    {n \in 1..Len(object_data.vals) :
       /\ IsLegacyMarker(object_data.vals[n])
       /\ Cardinality(Hit(object_data.vals[n], db)) # 1}

UnknownKey ==
    /\ pc = "key"
    /\ ki <= Len(intended_state.keys)
    /\ intended_state.keys[ki] \notin Models

\* is v a legacy marker that names a record type that is not a model?
NamesUnknownType(v) ==
    /\ IsLegacyMarker(v)
    /\ Len(v.toks) >= 2
    /\ v.toks[2] \notin Models \cup {""}

\* the items of the current spec are texts, one of them at least a legacy
\* marker, and every such marker names an unknown record type
UnknownTypeInFields ==
    /\ pc = "replace"
    /\ \A n \in 1..Len(object_data.vals) :
          /\ object_data.vals[n].k = "str"
          /\ IsLegacyMarker(object_data.vals[n]) => NamesUnknownType(object_data.vals[n])
    /\ \E n \in 1..Len(object_data.vals) : IsLegacyMarker(object_data.vals[n])

\* at an unknown key run logs one error, restores the records and raises
FatalOnUnknownKey ==
    UnknownKey =>
        /\ pc' = "raised"
        /\ raised' # "none"
        /\ Len(log') = Len(log) + 1
        /\ SubSeq(log', 1, Len(log)) = log
        /\ log'[Len(log')].level = "error"
        /\ db' = before /\ committed' = before
        /\ calls' = calls

\* nothing is logged or called for a spec of the key the run raised at, or of
\* a later key
NothingFromKeyOn ==
    (pc = "raised" /\ log[Len(log)].at = "key") =>
        /\ \A n \in LastRun : log[n].level # "error" => log[n].ki < ki
        /\ \A c \in 1..Len(calls) : calls[c].ki < ki
        /\ Cardinality({n \in LastRun : log[n].level = "error"}) = 1

\* a spec with an unknown type in a field marker is skipped with one warning
WarningOnUnknownType ==
    (UnknownTypeInFields /\ pc' # pc) =>
        /\ Len(log') = Len(log) + 1
        /\ log'[Len(log')].level = "warning"
        /\ raised' = "none"
        /\ db' = db
        /\ pc' = "object" /\ ki' = ki /\ oi' = oi + 1

\* C15 (as claimed): a key of the document that names no model is fatal: none
\* of its specs and no later one is processed, one error is logged, run raises
\* and the records are those before the run; whereas a record type that names
\* no model inside a legacy marker of a spec's fields gives one warning and
\* the spec is skipped.
C15_UnknownType ==
    /\ [][FatalOnUnknownKey]_vars
    /\ []NothingFromKeyOn
    /\ [][WarningOnUnknownType]_vars

\* the entries the latest run logged for the spec at p
EntriesFor(p) == {n \in LastRun : log[n].ki = p[1] /\ log[n].oi = p[2]}

\* was a directive of kind key extracted from the spec at p, with a payload
\* that is not empty?
Extracts(p, key) ==
    /\ Has(SpecAt(p), key) \/ HasNested(p, key)
    /\ Truthy(Preferred(p, key))

\* C16: when run returns, every spec of the document has exactly one entry in
\* the log, an outcome or a warning, and the log has no other entry; a spec
\* with an outcome entry had update_or_create called once and each directive
\* extracted from it applied once, and no warning.  The created flag of
\* update_or_create tells whether the record was absent before the call, it
\* and the record are kept while the directives are applied, and they are
\* what the outcome entry, logged only at the end of the spec's steps, holds.
C16_OneEntryPerSpec ==
    /\ [](pc = "returned" =>
            /\ \A n \in LastRun : <<log[n].ki, log[n].oi>> \in Positions
            /\ \A p \in Positions :
                  /\ Cardinality(EntriesFor(p)) = 1
                  /\ \A n \in EntriesFor(p) :
                        /\ log[n].level \in {"info", "warning"}
                        /\ log[n].level = "info" =>
                              /\ Cardinality(CallsFor(p, "update_or_create")) = 1
                              /\ Extracts(p, "#set") =>
                                    Cardinality(CallsFor(p, "obj_set")) = 1
                              /\ Extracts(p, "#add") =>
                                    Cardinality(CallsFor(p, "obj_add")) = 1)
    /\ [][(pc = "create" /\ pc' = "set") =>
             /\ created' = ~Persisted(obj', db)
             /\ Persisted(obj', db')]_vars
    /\ [][(pc \in {"set", "add"}) => (created' = created /\ obj' = obj)]_vars
    /\ [][(Len(log') > Len(log) /\ log'[Len(log')].level = "info") =>
             /\ pc = "report"
             /\ log'[Len(log')].created = created
             /\ log'[Len(log')].obj = obj
             /\ log'[Len(log')].ki = ki /\ log'[Len(log')].oi = oi]_vars

\* a run of three specs has returned with an outcome for a created record,
\* an outcome for an updated record and a warning
C16_Witness ==
    /\ pc = "returned"
    /\ Cardinality(Positions) = 3
    /\ \E n \in LastRun : log[n].level = "info" /\ log[n].created
    /\ \E n \in LastRun :
          /\ log[n].level = "info" /\ ~log[n].created
          /\ Extracts(<<log[n].ki, log[n].oi>>, "#add")
    /\ \E n \in LastRun : log[n].level = "warning" /\ log[n].at \in {"create", "set", "add"}

\* are the members given to the fields of the directive payload d all
\* records of the target model?
ValidMembers(d) ==
    \A n \in 1..Len(d.vals) : MembersError(AsList(d.vals[n])) = "none"

\* the members given to tags by the directive payload d
TagIds(d) == MemberIds(AsList(Get(d, "tags")))

\* the warnings the latest run logged while applying a directive
DirectiveWarnings == {n \in LastRun : log[n].level = "warning" /\ log[n].at \in {"set", "add"}}

\* the last storage call made for the spec at p
LastCallFor(p) ==
    LET cs == {c \in 1..Len(calls) : calls[c].ki = p[1] /\ calls[c].oi = p[2]}
    IN  calls[CHOOSE c \in cs : \A o \in cs : o <= c]

\* the step in which applying a directive fails with an error that is caught
DirectiveFails == pc \in {"set", "add"} /\ pc' = "object"

C18_SetBeforeAdd ==
    /\ \A c, e \in 1..Len(calls) :
          (/\ calls[c].op = "obj_set" /\ calls[e].op = "obj_add"
           /\ calls[c].ki = calls[e].ki /\ calls[c].oi = calls[e].oi) => c < e
    /\ (pc = "report" /\ Truthy(set_dict) /\ Truthy(add_dict)) =>
          /\ CallsFor(<<ki, oi>>, "obj_set") # {}
          /\ CallsFor(<<ki, oi>>, "obj_add") # {}
          /\ TagsOf(obj, db) = TagIds(set_dict) \cup TagIds(add_dict)

\* the person with tags {1, 2} has had set [c] and then add [a] applied: its
\* tags are {1, 3}
C18_Witness ==
    /\ pc = "report"
    /\ Truthy(set_dict) /\ Truthy(add_dict)
    /\ TagIds(set_dict) = {3} /\ TagIds(add_dict) = {1}
    /\ TagsOf(obj, committed) = {1, 2}
    /\ TagsOf(obj, db) = {1, 3}

\* does position p come before position q in document order?
Before(p, q) == p[1] < q[1] \/ (p[1] = q[1] /\ p[2] < q[2])

\* the steps of the loop body, the log entry included
BodySteps == SpecSteps \cup {"report"}

\* the spec at q has not been begun
NotBegun(q) ==
    \/ pc = "key" /\ q[1] >= ki
    \/ pc = "object" /\ (q[1] > ki \/ (q[1] = ki /\ q[2] >= oi))
    \/ pc \in BodySteps /\ Before(<<ki, oi>>, q)

\* the position of a log entry or of a storage call
At(x) == <<x.ki, x.oi>>

\* C19: the storage calls and the log entries of a run are in document order,
\* one entry per spec at most; while the steps of a spec are taken the loop
\* stays at that spec; when a spec is begun, it is as the payload gave it and
\* nothing has been logged or called for it or for a later spec; and every
\* spec not yet begun is as the payload gave it.
C19_DocumentOrder ==
    /\ [](\A c, e \in 1..Len(calls) : c < e => ~Before(At(calls[e]), At(calls[c])))
    /\ [](\A n, m \in 1..Len(log) :
             (/\ n < m /\ log[n].run = log[m].run
              /\ log[n].level # "error" /\ log[m].level # "error") =>
                 Before(At(log[n]), At(log[m])))
    /\ [][(pc \in BodySteps /\ pc' \in BodySteps) => (ki' = ki /\ oi' = oi)]_vars
    /\ [][(pc = "object" /\ pc' = "extract_set") =>
             /\ ki' = ki /\ oi' = oi
             /\ object_data = SpecAt(<<ki, oi>>)
             /\ \A n \in 1..Len(log) :
                   log[n].run = runs + 1 => Before(At(log[n]), <<ki, oi>>)
             /\ \A c \in 1..Len(calls) : Before(At(calls[c]), <<ki, oi>>)]_vars
    /\ [](pc \in BodySteps \cup {"key", "object"} =>
             \A q \in Positions :
                 NotBegun(q) => intended_state.vals[q[1]].items[q[2]] = SpecAt(q))

\* a run over two keys has returned with one entry for each of its three
\* specs, in document order, and it changed the first spec in place
C19_Witness ==
    /\ pc = "returned"
    /\ Positions = {<<1, 1>>, <<1, 2>>, <<2, 1>>}
    /\ Len(log) = 3
    /\ At(log[1]) = <<1, 1>> /\ At(log[2]) = <<1, 2>> /\ At(log[3]) = <<2, 1>>
    /\ intended_state.vals[1].items[1] # SpecAt(<<1, 1>>)
    /\ intended_state.vals[2].items[1] = SpecAt(<<2, 1>>)

\* is v a legacy marker with an odd number of tokens after the record type,
\* a field name whose value is missing?
OddTokens(v) ==
    /\ IsLegacyMarker(v)
    /\ Len(v.toks) >= 2
    /\ (Len(v.toks) - 2) % 2 = 1

\* is v a legacy marker without a record type: nothing after "#ref", or an
\* empty text where the type should be?
NoRecordType(v) ==
    /\ IsLegacyMarker(v)
    /\ (Len(v.toks) = 1 \/ v.toks[2] = "")

\* the items of the current spec are texts, its legacy markers are all
\* malformed in the way given, and there is one at least
MalformedInFields(Malformed(_)) ==
    /\ pc = "replace"
    /\ \A n \in 1..Len(object_data.vals) :
          /\ object_data.vals[n].k = "str"
          /\ IsLegacyMarker(object_data.vals[n]) => Malformed(object_data.vals[n])
    /\ \E n \in 1..Len(object_data.vals) : IsLegacyMarker(object_data.vals[n])

\* the step that resolves the fields of the current spec logs one warning,
\* stores nothing, uses no record and goes on to the next spec
SkippedWithWarning ==
    /\ Len(log') = Len(log) + 1
    /\ SubSeq(log', 1, Len(log)) = log
    /\ log'[Len(log')].level = "warning"
    /\ log'[Len(log')].ki = ki /\ log'[Len(log')].oi = oi
    /\ raised' = "none"
    /\ db' = db /\ calls' = calls
    /\ pc' = "object" /\ ki' = ki /\ oi' = oi + 1

\* is v a marker with an odd number of tokens after its type, or with nothing
\* after "#ref"? Both are an IndexError before any lookup.
OddOrBare(v) == OddTokens(v) \/ (IsLegacyMarker(v) /\ Len(v.toks) = 1)

\* such a marker gives one warning and the next spec
OddOrBareIsSkipped ==
    [][(MalformedInFields(OddOrBare) /\ pc' # pc) => SkippedWithWarning]_vars

\* is v a legacy marker the claim calls malformed?
Malformed(v) == OddTokens(v) \/ NoRecordType(v)

\* C20 (as claimed): a legacy marker in a spec's fields that has an odd
\* number of colon-separated tokens after the record type, or no record type
\* at all, leads to no lookup: the spec is skipped with one warning and the
\* run goes on with the next spec.
C20_MalformedReference ==
    [][(MalformedInFields(Malformed) /\ pc' # pc) => SkippedWithWarning]_vars

====
